---- MODULE Spec2Model ----
(***************************************************************************)
(* Model of the chatroom of src/main.py: the registry `users` of outbound  *)
(* channels, the websocket handlers on_connect / chat / on_disconnect, and *)
(* the broadcast tasks update_chat / update_users they spawn with          *)
(* asyncio.create_task.                                                    *)
(*                                                                         *)
(* A coroutine runs without interruption between two awaits; the only      *)
(* awaits of the program are the calls `await send(...)`.  Every action    *)
(* below is one such uninterrupted piece.                                  *)
(*                                                                         *)
(* The argument `send` of the three websocket handlers is taken to denote  *)
(* the channel of the session, the same object in on_connect and in        *)
(* on_disconnect; session s owns channel s.                                *)
(***************************************************************************)
EXTENDS Integers, Sequences, FiniteSets, TLC

\* ---------------------------------------------------------------- bounds
\* Number of client sessions that may connect during a run.
NumSessions == 2
\* Number of tasks created with asyncio.create_task during a run.
MaxTasks == 3
\* Number of inbound chat messages during a run.
MaxMsgs == 2
\* Number of messages the table may hold when history is requested.
MaxStored == 61

Sessions == 1..NumSessions
TaskIds == 1..MaxTasks

MsgIds == 1..MaxMsgs

VARIABLES
    users,      \* main.py:54   the set of registered channels
    session,    \* lifecycle position of each session's websocket endpoint
    tasks,      \* the tasks created so far, in creation order
    store,      \* main.py:31   the message table, in insertion order
    got,        \* per channel and message id, the copies the client received
    page,       \* the presence text of the last rendering of GET /
    seen,       \* per observed client, the last presence count it received
    hist        \* the last response of chat_history, if any

vars == <<users, session, tasks, store, got, page, seen, hist>>

\* ------------------------------------------------------- pure functions
\* main.py:100-106: the text of connected_users() for len(users) = count.
connected_users(count) ==
    ToString(count) \o " user" \o (IF count > 1 THEN "s" ELSE "") \o " connected"

\* -------------------------------------------------------------- tasks
\* A task as asyncio.create_task leaves it: not yet run.
\*   kind        "chat" for update_chat(message), "users" for update_users()
\*   msg         the id of the message of update_chat, 0 for update_users
\*   by          the handler or task that created it
\*   pc          "new", "send" (awaiting send(cur)), "hung" (that await never
\*               returns), "done", "crashed" (ended by an unhandled exception)
\*   cur         the channel the iterator yielded last (0: none yet)
\*   used        len(users) when the set iterator was created
\*   cnt         the count connected_users() rendered for the send in flight
\*   to_discard  main.py:205 / 217
\*   start       users when the iteration began
\*   att         per channel, the sends this pass began
NoSends == [c \in Sessions |-> 0]

NewTask(kind, msg, by) ==
    [kind |-> kind, msg |-> msg, by |-> by, pc |-> "new", cur |-> 0,
     used |-> 0, cnt |-> 0, to_discard |-> {}, start |-> {}, att |-> NoSends]

\* The task ended, by returning ("done") or by an unhandled exception
\* ("crashed"): its iterator and its locals are gone.
Retire(tk, how) ==
    [tk EXCEPT !.pc = how, !.cur = 0, !.used = 0, !.cnt = 0,
               !.to_discard = {}, !.start = {}, !.att = NoSends]

Running(tk) == tk.pc \in {"send", "hung"}

\* Tasks that create_task has yet to be called for by code already running:
\* an on_connect awaiting its history send, an endpoint whose chat raised and
\* whose on_disconnect is to run, a pass that collected a failure.
Pending ==
    Cardinality({s \in Sessions : session[s] \in {"conn_send", "recv_error"}})
    + Cardinality({t \in DOMAIN tasks :
                     Running(tasks[t]) /\ tasks[t].to_discard # {}})

\* Room for one more event that creates a task.
Room == Len(tasks) < MaxTasks /\ Len(tasks) + Pending < MaxTasks

\* ------------------------------------------------------------- the store
\* insert that stores the row as chat built it, with no id assigned.
insertKeepsId(st, user) == Append(st, [id |-> 0, user |-> user])

\* main.py:200: messages.insert(message) gives the row the next id of the
\* table's integer primary key and returns it.
insert(st, user) == Append(st, [id |-> Len(st) + 1, user |-> user])

\* ----------------------------------------------------------- history
\* main.py:70
MESSAGE_BATCH_SIZE == 30

\* Values of the query parameter last_id of GET /messages.  The argument
\* last_id of chat_history is {} for None and {n} for the integer n.
Cursors == 0..(MaxStored + 1)

\* main.py:92: the URL of the load-more trigger.
LoadMoreUrl(id) == "/messages?last_id=" \o ToString(id)

\* main.py:159-160: the query parameter of that URL, converted to int.
ParseLastId(url) == CHOOSE n \in Cursors : LoadMoreUrl(n) = url

\* `order by id desc limit k` over the ids S, none of which exceeds hi; k is
\* at most the number of ids.
RECURSIVE OrderByIdDesc(_, _, _)
OrderByIdDesc(S, hi, k) ==
    IF k = 0 THEN << >>
    ELSE IF hi \in S THEN <<hi>> \o OrderByIdDesc(S, hi - 1, k - 1)
    ELSE OrderByIdDesc(S, hi - 1, k)

Greatest(S) == CHOOSE x \in S : \A y \in S : y <= x

Least(a, b) == IF a < b THEN a ELSE b

\* The rows of the queries of main.py:76-83 for the ids `found` of the where
\* clause, and the elements of main.py:84-97 built from them: the messages,
\* and the load-more trigger (`more`) when there is a message.
Page(st, last_id, found) ==
    LET ids == IF found = {} THEN << >>
               ELSE OrderByIdDesc(found, Greatest(found),
                                  Least(MESSAGE_BATCH_SIZE, Cardinality(found)))
        msgs == [j \in DOMAIN ids |->
                    st[CHOOSE i \in DOMAIN st : st[i].id = ids[j]]]
    IN  [last_id |-> last_id,
         msgs |-> msgs,
         more |-> IF msgs # << >>
                  THEN {LoadMoreUrl(msgs[Len(msgs)].id)}
                  ELSE {}]

\* chat_history with `id <= ?` in its second query.
chat_historyInclusive(st, last_id) ==
    Page(st, last_id,
         {st[i].id : i \in {i \in DOMAIN st :
                              \A c \in last_id : st[i].id <= c}})

\* chat_history with the trigger built from msgs[0], the newest message.
chat_historyNewestCursor(st, last_id) ==
    LET p == Page(st, last_id,
                  {st[i].id : i \in {i \in DOMAIN st :
                                       \A c \in last_id : st[i].id < c}})
    IN  [p EXCEPT !.more = IF p.msgs # << >>
                           THEN {LoadMoreUrl(p.msgs[1].id)} ELSE {}]

\* chat_history with the first query whatever last_id is.
chat_historyIgnoresCursor(st, last_id) ==
    Page(st, last_id, {st[i].id : i \in DOMAIN st})

\* main.py:73-97
chat_history(st, last_id) ==
    Page(st, last_id,
         {st[i].id : i \in {i \in DOMAIN st :
                              \A c \in last_id : st[i].id < c}})

\* main.py:159-161
get_messages(st, last_id) == chat_history(st, {last_id})

\* ------------------------------------------------- iterating over users
\* next over a registry from which no channel is ever removed: every channel
\* that was added.
nextOfJoined(tk) ==
    LET ahead == {c \in Sessions : session[c] # "idle" /\ c > tk.cur}
    IN  IF ahead = {} THEN 0
        ELSE CHOOSE c \in ahead : \A d \in ahead : c <= d

\* What next() on the set iterator returns once its size check passed: a
\* channel, or 0 when the iterator is exhausted.  The iterator walks the
\* set's table by position and yields the entries beyond the position it
\* reached.  The position of a channel in the table is taken to be its
\* number: any channel can be the first to connect, to fail or to leave, so
\* every order of iteration relative to these events occurs.  An entry added
\* behind the position of the iterator is never yielded, one added ahead of
\* it is.
next(tk) ==
    LET ahead == {c \in users : c > tk.cur}
    IN  IF ahead = {} THEN 0
        ELSE CHOOSE c \in ahead : \A d \in ahead : c <= d

\* main.py:208 / 220: the loop body reached with send = c: the payload is
\* rendered and the send begun; the task suspends in it.
Yield(t, tk, c) ==
    /\ tasks' = [tasks EXCEPT ![t] =
                   [tk EXCEPT !.pc = "send", !.cur = c, !.att[c] = @ + 1,
                              !.cnt = IF tk.kind = "users"
                                      THEN Cardinality(users) ELSE 0]]
    /\ UNCHANGED users

\* Finish without line 213 / 225: the failed channels are evicted and nobody
\* is told.
FinishSilently(t, tk) ==
    /\ users' = users \ tk.to_discard
    /\ tasks' = [tasks EXCEPT ![t] = Retire(tk, "done")]

\* Finish without the test of line 211 / 223: a presence broadcast follows
\* every pass.
FinishRebroadcasts(t, tk) ==
    /\ users' = users \ tk.to_discard
    /\ tasks' = Append([tasks EXCEPT ![t] = Retire(tk, "done")],
                       NewTask("users", 0, <<"update", t>>))

\* main.py:211-213 / 223-225: the loop is over.
Finish(t, tk) ==
    /\ users' = users \ tk.to_discard
    /\ tasks' = IF tk.to_discard # {}
                THEN Append([tasks EXCEPT ![t] = Retire(tk, "done")],
                            NewTask("users", 0, <<"update", t>>))
                ELSE [tasks EXCEPT ![t] = Retire(tk, "done")]

\* The iterator's size check failed: RuntimeError("Set changed size during
\* iteration") is raised by the for statement, outside the try, and ends the
\* task; the failures the pass had collected are never evicted.
Crash(t, tk) ==
    /\ tasks' = [tasks EXCEPT ![t] = Retire(tk, "crashed")]
    /\ UNCHANGED users

\* main.py:206 / 218: `for send in users` asks the iterator for the next
\* channel.
Advance(t, tk) ==
    IF Cardinality(users) # tk.used
    THEN Crash(t, tk)
    ELSE LET c == next(tk)
         IN  IF c = 0 THEN Finish(t, tk) ELSE Yield(t, tk, c)

\* Deliver with the author of a message left out of its fan-out.
DeliverToOthers(tk) ==
    /\ got' = IF tk.kind = "chat" /\ store[tk.msg].user # tk.cur
              THEN [got EXCEPT ![tk.cur][tk.msg] = @ + 1]
              ELSE got
    /\ seen' = IF tk.kind = "users" /\ tk.cur \in DOMAIN seen
               THEN [seen EXCEPT ![tk.cur] = tk.cnt]
               ELSE seen

\* The send of task tk returned: the client of channel tk.cur has received
\* its payload.  The copies of each message are recorded, and the presence
\* count for the clients under observation.
Deliver(tk) ==
    /\ got' = IF tk.kind = "chat"
              THEN [got EXCEPT ![tk.cur][tk.msg] = @ + 1]
              ELSE got
    /\ seen' = IF tk.kind = "users" /\ tk.cur \in DOMAIN seen
               THEN [seen EXCEPT ![tk.cur] = tk.cnt]
               ELSE seen

\* ------------------------------------------------------------- handlers
\* main.py:182-183: users.add(send), then the history page is rendered and
\* its send awaited.
ConnectBegin(s) ==
    /\ session[s] = "idle"
    /\ Room
    /\ users' = users \cup {s}
    /\ session' = [session EXCEPT ![s] = "conn_send"]
    /\ UNCHANGED <<tasks, store, got, page, seen, hist>>

\* main.py:184: the history send returned.
ConnectOk(s) ==
    /\ session[s] = "conn_send"
    /\ tasks' = Append(tasks, NewTask("users", 0, <<"on_connect", s>>))
    /\ session' = [session EXCEPT ![s] = "connected"]
    /\ UNCHANGED <<users, store, got, page, seen, hist>>

\* main.py:183: the history send raised; nothing in on_connect catches it.
ConnectFail(s) ==
    /\ session[s] = "conn_send"
    /\ session' = [session EXCEPT ![s] = "conn_error"]
    /\ UNCHANGED <<users, tasks, store, got, page, seen, hist>>

\* chat with `await update_chat(message)` in place of create_task: the
\* session takes its next message once the fan-out of the last one is over.
chatAwaitsFanOut(s) ==
    /\ session[s] = "connected"
    /\ \A t \in DOMAIN tasks :
          tasks[t].by = <<"chat", s>> => tasks[t].pc \in {"done", "crashed"}
    /\ Len(store) < MaxMsgs
    /\ Room
    /\ store' = insert(store, s)
    /\ tasks' = Append(tasks, NewTask("chat", Len(store'), <<"chat", s>>))
    /\ UNCHANGED <<users, session, got, page, seen, hist>>

\* main.py:193-201
chat(s) ==
    /\ session[s] = "connected"
    /\ Len(store) < MaxMsgs
    /\ Room
    /\ store' = insert(store, s)
    /\ tasks' = Append(tasks, NewTask("chat", Len(store'), <<"chat", s>>))
    /\ UNCHANGED <<users, session, got, page, seen, hist>>

\* chatInsertRaises with create_task called before the insert.
chatSpawnsThenRaises(s) ==
    /\ session[s] = "connected"
    /\ Len(store) < MaxMsgs
    /\ Room
    /\ tasks' = Append(tasks, NewTask("chat", Len(store) + 1, <<"chat", s>>))
    /\ session' = [session EXCEPT ![s] = "recv_error"]
    /\ UNCHANGED <<users, store, got, page, seen, hist>>

\* main.py:193-200: messages.insert raised (the database is locked, full or
\* gone).  Nothing in chat catches it: line 201 is not reached and the
\* exception ends the endpoint's receive loop.
chatInsertRaises(s) ==
    /\ session[s] = "connected"
    /\ Room
    /\ session' = [session EXCEPT ![s] = "recv_error"]
    /\ UNCHANGED <<users, tasks, store, got, page, seen, hist>>

\* main.py:187-189, called when the client has left and, by the websocket
\* endpoint, when a handler of the receive loop raised.
on_disconnect(s) ==
    /\ \/ session[s] = "connected" /\ Room
       \/ session[s] = "recv_error"
    /\ users' = users \ {s}
    /\ tasks' = Append(tasks, NewTask("users", 0, <<"on_disconnect", s>>))
    /\ session' = [session EXCEPT ![s] = "disconnected"]
    /\ UNCHANGED <<store, got, page, seen, hist>>

\* main.py:135-156: GET / renders connected_users() into the page.
home ==
    /\ page' = connected_users(Cardinality(users))
    /\ UNCHANGED <<users, session, tasks, store, got, seen, hist>>

\* main.py:152 / 183: the most recent page, as home and on_connect render it.
FirstPage ==
    /\ hist' = <<chat_history(store, {})>>
    /\ UNCHANGED <<users, session, tasks, store, got, page, seen>>

\* main.py:92-96, 159-161: the client reveals the load-more trigger of the
\* page it holds and requests its URL.
LoadMore ==
    /\ hist # << >>
    /\ \E url \in hist[1].more :
          hist' = <<get_messages(store, ParseLastId(url))>>
    /\ UNCHANGED <<users, session, tasks, store, got, page, seen>>

\* main.py:159-161: GET /messages?last_id=n from any client.
Request(n) ==
    /\ hist' = <<get_messages(store, n)>>
    /\ UNCHANGED <<users, session, tasks, store, got, page, seen>>

\* ------------------------------------------------------ broadcast tasks
\* main.py:205-206 / 217-218: the task runs for the first time.
Start(t) ==
    /\ t \in DOMAIN tasks
    /\ tasks[t].pc = "new"
    /\ Advance(t, [tasks[t] EXCEPT !.used = Cardinality(users),
                                   !.start = users])
    /\ UNCHANGED <<session, store, got, page, seen, hist>>

\* main.py:208 / 220: the awaited send returned.
SendOk(t) ==
    /\ t \in DOMAIN tasks
    /\ tasks[t].pc = "send"
    /\ Deliver(tasks[t])
    /\ Advance(t, tasks[t])
    /\ UNCHANGED <<session, store, page, hist>>

\* SendFail without the try of lines 207-210: the exception ends the task.
SendFailAborts(t) ==
    /\ t \in DOMAIN tasks
    /\ tasks[t].pc = "send"
    /\ tasks' = [tasks EXCEPT ![t] = Retire(tasks[t], "crashed")]
    /\ UNCHANGED <<users, session, store, got, page, seen, hist>>

\* SendFail with users.discard(send) in the except clause: the channel is
\* evicted at once, and the changed set ends the iteration.
SendFailEvictsAtOnce(t) ==
    /\ t \in DOMAIN tasks
    /\ tasks[t].pc = "send"
    /\ users' = users \ {tasks[t].cur}
    /\ tasks' = [tasks EXCEPT ![t] = Retire(tasks[t], "crashed")]
    /\ UNCHANGED <<session, store, got, page, seen, hist>>

\* main.py:209-210: the awaited send raised.
SendFail(t) ==
    /\ t \in DOMAIN tasks
    /\ tasks[t].pc = "send"
    /\ tasks[t].to_discard # {} \/ Room
    /\ Advance(t, [tasks[t] EXCEPT !.to_discard = @ \cup {tasks[t].cur}])
    /\ UNCHANGED <<session, store, got, page, seen, hist>>

\* main.py:208 / 220: the awaited send never returns.
SendHang(t) ==
    /\ t \in DOMAIN tasks
    /\ tasks[t].pc = "send"
    /\ tasks' = [tasks EXCEPT ![t].pc = "hung"]
    /\ UNCHANGED <<users, session, store, got, page, seen, hist>>

\* ------------------------------------------------------- specification
\* No client is connected, no message is stored (a fresh data/chat.db), no
\* client's presence count is under observation, no history was requested.
Init ==
    /\ users = {}
    /\ session = [s \in Sessions |-> "idle"]
    /\ tasks = << >>
    /\ store = << >>
    /\ got = [c \in Sessions |-> [m \in MsgIds |-> 0]]
    /\ page = ""
    /\ seen = << >>
    /\ hist = << >>

Next ==
    \/ \E s \in Sessions : ConnectBegin(s)
    \/ \E s \in Sessions : ConnectOk(s)
    \/ \E s \in Sessions : ConnectFail(s)
    \/ \E s \in Sessions : chat(s)
    \/ \E s \in Sessions : on_disconnect(s)
    \/ \E t \in TaskIds : Start(t)
    \/ \E t \in TaskIds : SendOk(t)
    \/ \E t \in TaskIds : SendFail(t)

Spec == Init /\ [][Next]_vars

\* Spec leaves a send that never returns to the behaviours in which its task
\* takes no further step.  SpecAll makes it explicit: a send that has not
\* hung returns, and a task that was created runs.  It also serves GET /.
NextAll ==
    \/ Next
    \/ home
    \/ \E t \in TaskIds : SendHang(t)

SpecAll ==
    /\ Init
    /\ [][NextAll]_vars
    /\ \A t \in TaskIds : WF_vars(Start(t)) /\ WF_vars(SendOk(t))

\* Spec with a store whose insert may raise.
NextStore ==
    \/ Next
    \/ \E s \in Sessions : chatInsertRaises(s)

SpecStore == Init /\ [][NextStore]_vars

\* Spec with the presence count every client receives under observation.
InitObserved ==
    /\ users = {}
    /\ session = [s \in Sessions |-> "idle"]
    /\ tasks = << >>
    /\ store = << >>
    /\ got = [c \in Sessions |-> [m \in MsgIds |-> 0]]
    /\ page = ""
    /\ seen = [c \in Sessions |-> 0]
    /\ hist = << >>

SpecObserved == InitObserved /\ [][Next]_vars

\* The history requests, over a table that holds any number of messages up
\* to MaxStored, inserted by one author.
RECURSIVE Filled(_)
Filled(n) == IF n = 0 THEN << >> ELSE insert(Filled(n - 1), 1)

InitHistory ==
    /\ users = {}
    /\ session = [s \in Sessions |-> "idle"]
    /\ tasks = << >>
    /\ store \in {Filled(n) : n \in 0..MaxStored}
    /\ got = [c \in Sessions |-> [m \in MsgIds |-> 0]]
    /\ page = ""
    /\ seen = << >>
    /\ hist = << >>

NextHistory ==
    \/ FirstPage
    \/ LoadMore
    \/ \E n \in Cursors : Request(n)

SpecHistory == InitHistory /\ [][NextHistory]_vars

\* ---------------------------------------------------------------- claims
\* The sessions whose channel on_connect has added to users.
Joined == {s \in Sessions : session[s] # "idle"}

\* The step ends the pass of task t, by returning or by an exception.
Ends(t) ==
    /\ t \in DOMAIN tasks
    /\ tasks[t].pc \in {"new", "send"}
    /\ tasks'[t].pc \in {"done", "crashed"}

\* C2: a membership change made by another session while a broadcast is in
\* flight does not abort it: no broadcast task is ever ended by an unhandled
\* error, and a pass that returns has attempted delivery exactly once on
\* every channel that was registered from its start to its end.
C2_BroadcastSurvivesMembershipChange ==
    /\ [](\A t \in DOMAIN tasks : tasks[t].pc # "crashed")
    /\ [][\A t \in TaskIds :
            (Ends(t) /\ tasks[t].pc = "send") =>
                \A c \in tasks[t].start \cap users : tasks[t].att[c] = 1]_vars

\* C3: one hung send does not block delivery to the other channels: when the
\* send of a pass to one channel never returns, every other channel that was
\* registered when the pass began and stays registered is eventually served
\* by that pass.
Blocked(t, c) ==
    IF t \in DOMAIN tasks
    THEN /\ tasks[t].pc = "hung"
         /\ c \in tasks[t].start
         /\ c # tasks[t].cur
    ELSE FALSE

Served(t, c) ==
    IF t \in DOMAIN tasks THEN tasks[t].att[c] > 0 ELSE FALSE

C3_HungSendDoesNotBlock ==
    \A t \in TaskIds : \A c \in Sessions :
        [](Blocked(t, c) => <>(c \notin users \/ Served(t, c)))

\* C5: a failed send to a registered channel is recovered locally and never
\* propagated to the caller: no handler is ended by the failure of a send.
C5_SendFailureNotPropagated ==
    \A s \in Sessions : session[s] # "conn_error"

\* C7: a disconnect and a concurrent failed-send eviction of the same channel
\* both complete without error: a pass that collected the failed send to c,
\* during which the disconnect of c is the only change of the registry, is
\* not ended by an error.
C7_DisconnectAndEvictionBothComplete ==
    [][\A t \in TaskIds : \A c \in Sessions :
          (/\ t \in DOMAIN tasks
           /\ tasks[t].pc = "send"
           /\ c \in tasks[t].to_discard
           /\ session[c] = "disconnected"
           /\ users = tasks[t].start \ {c})
          => tasks'[t].pc # "crashed"]_vars

\* C8: the presence text follows the pluralization rule: "1 user connected",
\* and "N users connected" for every other count N, 0 included.
PresenceText(n) ==
    ToString(n) \o (IF n = 1 THEN " user" ELSE " users") \o " connected"

C8_PresencePluralization ==
    page = "" \/ page \in {PresenceText(n) : n \in 0..NumSessions}

\* C9: every on_connect, one whose history send fails included, has created
\* a presence broadcast once it has ended.
C9_ConnectTriggersPresence ==
    \A s \in Sessions :
        session[s] \in {"connected", "conn_error"} =>
            \E t \in DOMAIN tasks :
                tasks[t].kind = "users" /\ tasks[t].by = <<"on_connect", s>>

\* C1: broadcasting a message to K live channels of which i >= 1 fail, with
\* no other change of the registry during the pass: when the pass ends, each
\* of the K-i other channels holds one copy of the message and the failed
\* ones none, exactly the failed channels have left the registry, which
\* counts K-i members, and exactly one presence broadcast has been created.
C1_FanOutWithFailures ==
    [][\A t \in TaskIds :
          (/\ Ends(t)
           /\ tasks[t].kind = "chat"
           /\ tasks[t].pc = "send"
           /\ tasks[t].start = users)
          =>
          LET tk == tasks[t]
              m == tk.msg
              failed == tk.to_discard \cup
                        (IF got'[tk.cur][m] = got[tk.cur][m] THEN {tk.cur} ELSE {})
          IN  failed # {} =>
                /\ tasks'[t].pc = "done"
                /\ \A c \in tk.start \ failed : got'[c][m] = 1
                /\ \A c \in failed : got'[c][m] = 0
                /\ users' = tk.start \ failed
                /\ Cardinality(users') = Cardinality(tk.start) - Cardinality(failed)
                /\ tasks' = Append([tasks EXCEPT ![t] = tasks'[t]],
                                   NewTask("users", 0, <<"update", t>>))]_vars

\* A message went to two channels, one of which failed and was evicted, and
\* the presence broadcast of the eviction exists.
C1_Witness ==
    \E t \in DOMAIN tasks : \E u \in DOMAIN tasks : \E a \in users :
    \E b \in Joined \ users :
        /\ tasks[t].kind = "chat"
        /\ tasks[t].pc = "done"
        /\ tasks[u].by = <<"update", t>>
        /\ got[a][tasks[t].msg] = 1
        /\ session[b] # "disconnected"
        /\ got[b][tasks[t].msg] = 0

\* C4: each delivery of a broadcast is attempted independently: whether the
\* send in flight returns or raises, a pass over an unchanged registry is not
\* ended by it, goes on with a channel not yet attempted while there is one,
\* and returns only when every channel was attempted, each once.
C4_FailureDoesNotAbortFanOut ==
    [][\A t \in TaskIds :
          (/\ t \in DOMAIN tasks
           /\ tasks[t].pc = "send"
           /\ tasks[t].start = users
           /\ tasks'[t] # tasks[t])
          =>
          LET tk == tasks[t]
              rest == {c \in users : tk.att[c] = 0}
          IN  /\ tasks'[t].pc # "crashed"
              /\ \A c \in users : tk.att[c] <= 1
              /\ rest # {} =>
                    /\ tasks'[t].pc = "send"
                    /\ tasks'[t].cur \in rest
                    /\ tasks'[t].att = [tk.att EXCEPT ![tasks'[t].cur] = 1]
                    /\ tasks'[t].to_discard \in
                          {tk.to_discard, tk.to_discard \cup {tk.cur}}
              /\ rest = {} => tasks'[t].pc = "done"]_vars

\* A pass that collected a failure is sending to a later channel.
C4_Witness ==
    \E t \in DOMAIN tasks :
        /\ tasks[t].pc = "send"
        /\ tasks[t].start = users
        /\ tasks[t].to_discard # {}
        /\ tasks[t].cur \notin tasks[t].to_discard

\* C6: two sessions connect and one message is sent: when the fan-out of the
\* message began with both channels registered, no send of it failed and the
\* registry holds the two channels, it returns with exactly one copy of the
\* message on each; and no channel ever holds two copies of a message.
C6_TwoSessionsOneCopyEach ==
    /\ [](\A c \in Sessions : \A m \in MsgIds : got[c][m] <= 1)
    /\ [][\A t \in TaskIds :
            (/\ Ends(t)
             /\ tasks[t].kind = "chat"
             /\ tasks[t].pc = "send"
             /\ Cardinality(Joined) = 2
             /\ tasks[t].start = Joined
             /\ users = Joined
             /\ tasks[t].to_discard = {}
             /\ got'[tasks[t].cur][tasks[t].msg] # got[tasks[t].cur][tasks[t].msg])
            =>
            /\ tasks'[t].pc = "done"
            /\ \A c \in Joined : got'[c][tasks[t].msg] = 1]_vars

\* Both on_connect handlers created their presence broadcast, and the
\* fan-out of a message returned with the two channels registered.
C6_Witness ==
    \E t \in DOMAIN tasks :
        /\ tasks[t].kind = "chat"
        /\ tasks[t].pc = "done"
        /\ Cardinality(Joined) = 2
        /\ users = Joined
        /\ \A s \in Joined :
              /\ got[s][tasks[t].msg] = 1
              /\ \E u \in DOMAIN tasks : tasks[u].by = <<"on_connect", s>>

\* C10: broadcasting is fire-and-forget: the step of a handler or of an
\* eviction that creates a broadcast task leaves the task not yet run, with
\* no delivery of it made; and a connected session can process an inbound
\* message whatever the state of the broadcasts created so far.
C10_FireAndForget ==
    /\ [][Len(tasks') > Len(tasks) =>
            LET new == tasks'[Len(tasks')]
            IN  /\ Len(tasks') = Len(tasks) + 1
                /\ new.pc = "new"
                /\ new.att = NoSends
                /\ new.kind = "chat" =>
                      /\ session' = session
                      /\ \A c \in Sessions : got'[c][new.msg] = 0]_vars
    /\ [](\A s \in Sessions :
            (session[s] = "connected" /\ Len(store) < MaxMsgs /\ Room)
                => ENABLED chat(s))

\* A session had its second message processed while the fan-out of its first
\* was unfinished and had delivered nothing.
C10_Witness ==
    \E s \in Sessions : \E t \in DOMAIN tasks : \E u \in DOMAIN tasks :
        /\ t < u
        /\ tasks[t].by = <<"chat", s>>
        /\ tasks[u].by = <<"chat", s>>
        /\ tasks[t].pc \in {"new", "send"}
        /\ \A c \in Sessions : got[c][tasks[t].msg] = 0

Rows(st) == {st[i] : i \in DOMAIN st}

\* C12: a history page for cursor c holds the min(30, n) stored messages with
\* the greatest ids below c, n being the number of stored messages with an id
\* below c (all of them when c is absent), ordered by id descending: no
\* message with id >= c is in it, and no stored message with id < c is
\* skipped in favour of an older one.
C12_HistoryPageContents ==
    \A k \in DOMAIN hist :
        LET r == hist[k]
            below == {m \in Rows(store) : \A c \in r.last_id : m.id < c}
        IN  /\ Len(r.msgs) = Least(MESSAGE_BATCH_SIZE, Cardinality(below))
            /\ Rows(r.msgs) \subseteq below
            /\ \A m \in below \ Rows(r.msgs) :
                  \A j \in DOMAIN r.msgs : m.id < r.msgs[j].id
            /\ \A i \in DOMAIN r.msgs : \A j \in DOMAIN r.msgs :
                  i < j => r.msgs[i].id > r.msgs[j].id

\* A full page for a cursor that has stored messages at or above it and more
\* than a page of them below it.
C12_Witness ==
    \E k \in DOMAIN hist : \E c \in hist[k].last_id :
        /\ c <= Len(store)
        /\ Len(hist[k].msgs) = MESSAGE_BATCH_SIZE
        /\ hist[k].msgs[1].id = c - 1
        /\ hist[k].msgs[MESSAGE_BATCH_SIZE].id > store[1].id

\* C13: over an unchanged table, the most recent page followed by the page
\* for the cursor the first one emitted: the second page holds the next
\* messages, up to 30, all strictly older than those of the first (no
\* overlap), and no stored message lies between the two pages or is left out
\* when the second page is not full (no gap).
C13_ConsecutivePages ==
    [][(LoadMore /\ hist[1].last_id = {}) =>
          LET a == hist[1].msgs
              b == hist'[1].msgs
              rest == Rows(store) \ (Rows(a) \cup Rows(b))
          IN  /\ store' = store
              /\ Len(a) = Least(MESSAGE_BATCH_SIZE, Len(store))
              /\ Len(b) = Least(MESSAGE_BATCH_SIZE, Len(store) - Len(a))
              /\ \A i \in DOMAIN a : \A j \in DOMAIN b : b[j].id < a[i].id
              /\ \A m \in rest : \A j \in DOMAIN b : m.id < b[j].id
              /\ Len(b) < MESSAGE_BATCH_SIZE => rest = {}]_vars

\* The page held is a full second page: its cursor is the id of the 30th
\* most recent message.
C13_Witness ==
    \E k \in DOMAIN hist :
        /\ Len(store) >= 2 * MESSAGE_BATCH_SIZE
        /\ hist[k].last_id = {store[Len(store) - MESSAGE_BATCH_SIZE + 1].id}
        /\ Len(hist[k].msgs) = MESSAGE_BATCH_SIZE

\* C14: the cursor of the load-more trigger of a page is the id of the oldest
\* message of the page, and the trigger is absent exactly when the page is
\* empty.
C14_NextCursor ==
    \A k \in DOMAIN hist :
        LET r == hist[k]
        IN  /\ (r.more = {}) <=> (r.msgs = << >>)
            /\ Cardinality(r.more) <= 1
            /\ \A url \in r.more : \A m \in Rows(r.msgs) :
                  /\ ParseLastId(url) <= m.id
                  /\ \E o \in Rows(r.msgs) : ParseLastId(url) = o.id

\* A page of several messages with its trigger.
C14_Witness ==
    \E k \in DOMAIN hist :
        /\ Len(hist[k].msgs) > 1
        /\ hist[k].more = {LoadMoreUrl(hist[k].msgs[Len(hist[k].msgs)].id)}

\* C15: whatever the number of stored messages, the page for last_id equal to
\* the smallest id ever inserted is empty and has no load-more trigger.
C15_EndOfHistory ==
    \A k \in DOMAIN hist :
        (/\ store # << >>
         /\ \E c \in hist[k].last_id : \A m \in Rows(store) : c <= m.id
         /\ \E c \in hist[k].last_id : \E m \in Rows(store) : c = m.id)
        => (hist[k].msgs = << >> /\ hist[k].more = {})

\* The oldest message of a table of more than a page was the cursor.
C15_Witness ==
    \E k \in DOMAIN hist :
        /\ Len(store) > MESSAGE_BATCH_SIZE
        /\ hist[k].last_id = {store[1].id}
        /\ hist[k].msgs = << >>

\* The step is one of task t: no other step changes the record of a task.
Steps(t) ==
    /\ t \in DOMAIN tasks
    /\ tasks'[t] # tasks[t]

\* C16: within one broadcast, the channels whose send failed are collected
\* during the fan-out and removed in one batch when the loop is over, after
\* delivery was attempted on every channel registered throughout: no step of
\* the pass before its last changes the registry or creates a task, and the
\* last creates one presence broadcast if and only if the batch is non-empty.
C16_EvictionInOneBatch ==
    [][\A t \in TaskIds :
          Steps(t) =>
          LET tk == tasks[t]
          IN  IF tasks'[t].pc = "done"
              THEN LET batch == IF SendFail(t) THEN tk.to_discard \cup {tk.cur}
                                ELSE tk.to_discard
                   IN  /\ \A c \in tk.start \cap users : tk.att[c] > 0
                       /\ users' = users \ batch
                       /\ batch = {} => Len(tasks') = Len(tasks)
                       /\ batch # {} =>
                             /\ Len(tasks') = Len(tasks) + 1
                             /\ tasks'[Len(tasks')] =
                                    NewTask("users", 0, <<"update", t>>)
              ELSE /\ users' = users
                   /\ Len(tasks') = Len(tasks)
                   /\ tasks'[t].pc = "send" =>
                         tasks'[t].to_discard \in
                             {tk.to_discard, tk.to_discard \cup {tk.cur}}]_vars

\* The sends of one pass to both channels failed, and both were evicted
\* together: the registry is empty, no session disconnected, and a single
\* eviction-triggered presence broadcast exists.
C16_Witness ==
    /\ users = {}
    /\ Cardinality(Joined) > 1
    /\ \A s \in Joined : session[s] \in {"connected", "conn_error"}
    /\ Cardinality({t \in DOMAIN tasks : tasks[t].by[1] = "update"}) = 1

\* The tasks done or ended, and no handler suspended or about to be called.
Quiet ==
    /\ \A t \in DOMAIN tasks : tasks[t].pc \in {"done", "crashed"}
    /\ \A s \in Sessions : session[s] \notin {"conn_send", "recv_error"}

\* C17: presence converges: once every handler has returned and every task
\* that was created has run to its end, the last presence count received on
\* each channel of the registry is the number of channels of the registry.
\* It is stated for the channels whose session is connected, those with a
\* client to show the count.
C17_PresenceConverges ==
    Quiet =>
        \A c \in users :
            session[c] = "connected" => seen[c] = Cardinality(users)

\* C18: a disconnecting session removes its own channel only, and a channel
\* that is not in the registry (removed by on_disconnect or by an eviction,
\* and never added again) gets no delivery attempt: every send a pass begins
\* is to a channel registered at that moment.
C18_RemovedChannelNotServed ==
    [][/\ \A s \in Sessions :
             session'[s] = "disconnected" =>
                 (users' = users \ {s} \/ session[s] = "disconnected")
       /\ \A t \in TaskIds :
             (Steps(t) /\ tasks'[t].pc = "send") =>
                 \A c \in Sessions :
                     tasks'[t].att[c] > tasks[t].att[c] => c \in users]_vars

\* A pass that began after a channel had been removed is sending to another
\* channel.
C18_Witness ==
    \E t \in DOMAIN tasks : \E c \in Joined \ users :
        /\ tasks[t].pc = "send"
        /\ c \notin tasks[t].start
        /\ tasks[t].att[c] = 0
        /\ tasks[t].by \in {<<"on_disconnect", c>>} \cup
                            {<<"update", u>> : u \in TaskIds}

\* The number of eviction-triggered broadcasts between task t and the event
\* (connect, disconnect or message) that its chain began with.
RECURSIVE Links(_)
Links(t) ==
    IF tasks[t].by[1] = "update" THEN 1 + Links(tasks[t].by[2]) ELSE 0

\* C19: the chain of eviction-triggered presence broadcasts terminates: a
\* follow-up broadcast is created only by a pass that failed on a channel,
\* which, no channel having connected during the pass, it removes from the
\* registry; every link of a chain has thus cost the registry a channel of
\* its own, so a chain has at most as many follow-ups as channels have left;
\* and a broadcast over an empty registry delivers nothing, evicts nothing
\* and creates no task.
C19_EvictionChainTerminates ==
    /\ [](\A t \in DOMAIN tasks :
            Links(t) <= Cardinality(Joined \ users))
    /\ [][\A t \in TaskIds :
            /\ (/\ Len(tasks') > Len(tasks)
                /\ Steps(t)
                /\ tasks[t].pc = "send"
                /\ users \subseteq tasks[t].start)
               => (users' \subseteq users /\ users' # users)
            /\ (/\ users = {}
                /\ Steps(t)
                /\ tasks[t].pc = "new")
               => /\ tasks' = [tasks EXCEPT ![t] = Retire(tasks[t], "done")]
                  /\ users' = {}
                  /\ got' = got]_vars

\* A chain of two evictions emptied the registry, and the broadcast of the
\* second eviction ran over the empty registry and created nothing.
C19_Witness ==
    \E t \in DOMAIN tasks :
        /\ Links(t) = 2
        /\ tasks[t].pc = "done"
        /\ users = {}
        /\ Len(tasks) = t

====
